---- MODULE Spec2Model ----
(***************************************************************************)
(* QR-waypoint navigation for the visually impaired (src/main.py).         *)
(*                                                                         *)
(* The model follows main(): the waypoint table and the edge list are      *)
(* configuration, build_graph builds the location graph, compute_route     *)
(* plans a shortest route, and the control loop of main consumes decoded   *)
(* QR strings and recognized voice commands, speaking and logging its      *)
(* guidance through speak / add_log.                                       *)
(*                                                                         *)
(* Strings are sequences of one-character strings, so that strip() and     *)
(* upper() are computed and not assumed.                                   *)
(***************************************************************************)
EXTENDS Integers, Sequences, FiniteSets, TLC

VARIABLES
    qr_data,          \* define_qr_locations(): waypoint code -> location name
    edges,            \* the literal edge list of build_graph
    nav_graph,        \* build_graph(qr_data): [nodes, adj]
    picam2,           \* the camera: "none", "started" or "stopped"
    log_messages,     \* the global list add_log appends to
    pc,               \* the position of main()
    code,             \* main's local: the last decoded QR string
    spoken_code,      \* main's local: the last result of get_destination_voice
    current_location, \* main's local
    destination,      \* main's local
    route,            \* main's local
    route_index,      \* main's local
    gps_data,         \* the global dictionary read_gps writes
    pc_gps,           \* the position of the read_gps thread
    last_sse_index,   \* the global cursor of stream_logs
    sse               \* the stream_logs generator of each client of /logs

\* the variables of main()
main_vars == <<qr_data, edges, nav_graph, picam2, pc, code, spoken_code,
               current_location, destination, route, route_index>>

\* the variables of the GPS thread and of the Flask handlers
server_vars == <<gps_data, pc_gps, last_sse_index, sse>>

vars == <<qr_data, edges, nav_graph, picam2, log_messages, pc, code, spoken_code,
          current_location, destination, route, route_index,
          gps_data, pc_gps, last_sse_index, sse>>

-----------------------------------------------------------------------------
(* Bounds *)

\* main's loops stop taking input once the log holds this many lines
MaxLog == 20

\* the longest edge list build_graph is tried on
MaxEdges == 3

-----------------------------------------------------------------------------
(* Strings *)

\* Python's None, as a value no string equals
None == <<"None">>

\* the truth value Python gives a str-or-None in `if x and ...`
Truthy(x) == x # None /\ x # <<>>

upper_char(c) ==
    CASE c = "a" -> "A"
      [] c = "b" -> "B"
      [] OTHER -> c

\* str.upper()
upper(s) == [i \in 1..Len(s) |-> upper_char(s[i])]

RECURSIVE lstrip(_)
lstrip(s) == IF s # <<>> /\ Head(s) = " " THEN lstrip(Tail(s)) ELSE s

RECURSIVE rstrip(_)
rstrip(s) ==
    IF s # <<>> /\ s[Len(s)] = " " THEN rstrip(SubSeq(s, 1, Len(s) - 1)) ELSE s

\* str.strip()
strip(s) == rstrip(lstrip(s))

\* ', '.join(codes)
RECURSIVE join(_)
join(codes) ==
    IF codes = <<>> THEN <<>>
    ELSE IF Len(codes) = 1 THEN codes[1]
    ELSE codes[1] \o <<",", " ">> \o join(Tail(codes))

-----------------------------------------------------------------------------
(* Waypoint table and edge lists *)

A1 == <<"A", "1">>
A2 == <<"A", "2">>
A3 == <<"A", "3">>
A4 == <<"A", "4">>
A5 == <<"A", "5">>
A6 == <<"A", "6">>
A7 == <<"A", "7">>
A8 == <<"A", "8">>
A9 == <<"A", "9">>
A10 == <<"A", "1", "0">>
A11 == <<"A", "1", "1">>
A12 == <<"A", "1", "2">>
A13 == <<"A", "1", "3">>
A14 == <<"A", "1", "4">>
A15 == <<"A", "1", "5">>
B1 == <<"B", "1">>
B2 == <<"B", "2">>
B3 == <<"B", "3">>
B4 == <<"B", "4">>
B5 == <<"B", "5">>
B6 == <<"B", "6">>
B7 == <<"B", "7">>
B8 == <<"B", "8">>
B9 == <<"B", "9">>
B10 == <<"B", "1", "0">>
B11 == <<"B", "1", "1">>
B12 == <<"B", "1", "2">>
B13 == <<"B", "1", "3">>
B14 == <<"B", "1", "4">>

\* the dictionary define_qr_locations() returns, entry by entry
ShippedLocations ==
    <<<<A1, "Room 515">>,
      <<A2, "MTech Lab 514">>,
      <<A3, "Staff Room Door 1">>,
      <<A4, "Staff Room Door 3">>,
      <<A5, "Room 511">>,
      <<A6, "Washroom">>,
      <<A7, "Stairs">>,
      <<A8, "Room 510">>,
      <<A9, "Micro Lab 508">>,
      <<A10, "Circuits Lab 506">>,
      <<A11, "EC Core Staff Room">>,
      <<A12, "Lift">>,
      <<A13, "Sdpk">>,
      <<A14, "Room 503">>,
      <<A15, "Stairs EB">>,
      <<B1, "Intermediate Code 1">>,
      <<B2, "Intermediate Code 2">>,
      <<B3, "Intermediate Code 3">>,
      <<B4, "Intermediate Code 4">>,
      <<B5, "Intermediate Code 5">>,
      <<B6, "Intermediate Code 6">>,
      <<B7, "Intermediate Code 7">>,
      <<B8, "Intermediate Code 8">>,
      <<B9, "Intermediate Code 9">>,
      <<B10, "Intermediate Code 10">>,
      <<B11, "Intermediate Code 11">>,
      <<B12, "Intermediate Code 12">>,
      <<B13, "Intermediate Code 13">>,
      <<B14, "Intermediate Code 14">>>>

ShippedCodes == {ShippedLocations[i][1] : i \in 1..Len(ShippedLocations)}

\* the name the dictionary gives a code
LocationName(c) ==
    LET i == CHOOSE i \in 1..Len(ShippedLocations) : ShippedLocations[i][1] = c
    IN  ShippedLocations[i][2]

define_qr_locations(codes) == [c \in codes |-> LocationName(c)]

\* every sub-list of a list, order kept
RECURSIVE SubLists(_)
SubLists(l) ==
    IF l = <<>> THEN {<<>>}
    ELSE LET rest == SubLists(Tail(l))
         IN  rest \cup {<<Head(l)>> \o r : r \in rest}

\* the edge list without the pair that joins the lift, A12, to the ring
ShippedEdges_no_lift ==
    <<<<A1, A2>>, <<A2, B1>>, <<B1, A3>>, <<A3, B2>>, <<B2, B3>>,
      <<B3, B4>>, <<B4, B5>>, <<B5, A4>>, <<A4, A5>>, <<A5, B6>>,
      <<B6, A6>>, <<A6, A7>>, <<A7, A8>>, <<A8, A9>>, <<A9, B7>>,
      <<B7, A10>>, <<A10, B8>>, <<B8, B9>>, <<B9, A11>>, <<A11, B10>>,
      <<B10, B11>>, <<B11, B12>>, <<B12, A13>>, <<A13, A14>>, <<A14, B13>>,
      <<B13, A15>>, <<A15, B14>>, <<B14, A1>>>>

\* the edge list of build_graph
ShippedEdges ==
    <<<<A1, A2>>, <<A2, B1>>, <<B1, A3>>, <<A3, B2>>, <<B2, B3>>,
      <<B3, B4>>, <<B4, B5>>, <<B5, A4>>, <<A4, A5>>, <<A5, B6>>,
      <<B6, A6>>, <<A6, A7>>, <<A7, A8>>, <<A8, A9>>, <<A9, B7>>,
      <<B7, A10>>, <<A10, B8>>, <<B8, B9>>, <<B9, A11>>, <<A11, B10>>,
      <<B10, B11>>, <<B11, B12>>, <<B12, A13>>, <<A13, A14>>, <<A14, B13>>,
      <<B13, A15>>, <<A15, B14>>, <<B14, A1>>, <<A11, A12>>>>

\* the first three edges of the shipped list, and the same four waypoints in a ring
ShippedPrefix == <<<<A1, A2>>, <<A2, B1>>, <<B1, A3>>>>
Ring == <<<<A1, A2>>, <<A2, B1>>, <<B1, A3>>, <<A3, A1>>>>

\* the configurations a session is run on: a waypoint table and an edge list over it
Configs ==
    [codes : {{A1, A2}}, edges : SubLists(<<<<A1, A2>>>>)]
    \cup [codes : {{A1, B1, A3}},
          edges : SubLists(<<<<A1, B1>>, <<B1, A3>>, <<A3, A1>>>>)]
    \cup [codes : {{A1, A2, B1, A3}}, edges : {ShippedPrefix, Ring}]

\* the edge list is added as listed, without its reversed pairs
build_graph_directed(qr, edge_list) ==
    LET listed == {edge_list[i] : i \in 1..Len(edge_list)}
    IN  [nodes |-> DOMAIN qr \cup {e[1] : e \in listed} \cup {e[2] : e \in listed},
         adj |-> listed]

\* G.add_nodes_from(qr_data.keys()); edges += reversed; G.add_edges_from(edges)
build_graph(qr, edge_list) ==
    LET listed == {edge_list[i] : i \in 1..Len(edge_list)}
        doubled == listed \cup {<<e[2], e[1]>> : e \in listed}
    IN  [nodes |-> DOMAIN qr \cup {e[1] : e \in doubled},
         adj |-> doubled]

NoGraph == [nodes |-> {}, adj |-> {}]

-----------------------------------------------------------------------------
(* Route planning *)

\* Python's None as the result of compute_route: no route
NoRoute == <<>>

successors(G, u) == {e[2] : e \in {d \in G.adj : d[1] = u}}

\* the search gives up its frontier when it runs dry: a partial route
RECURSIVE bfs_paths_dry(_, _, _, _)
bfs_paths_dry(G, frontier, seen, target) ==
    LET found == {p \in frontier : p[Len(p)] = target}
        next == UNION {{Append(p, v) : v \in successors(G, p[Len(p)]) \ seen} :
                       p \in frontier}
    IN  IF found # {} THEN found
        ELSE IF next = {} THEN frontier
        ELSE bfs_paths_dry(G, next, seen \cup {p[Len(p)] : p \in next}, target)

\* breadth-first search over paths: `frontier` holds the shortest paths to the
\* nodes of the current level, `seen` the nodes of this and the earlier levels
RECURSIVE bfs_paths(_, _, _, _)
bfs_paths(G, frontier, seen, target) ==
    LET found == {p \in frontier : p[Len(p)] = target}
        next == UNION {{Append(p, v) : v \in successors(G, p[Len(p)]) \ seen} :
                       p \in frontier}
    IN  IF found # {} THEN found
        ELSE IF next = {} THEN {}
        ELSE bfs_paths(G, next, seen \cup {p[Len(p)] : p \in next}, target)

\* a search that returns any simple path to the target, shortest or not
RECURSIVE simple_paths(_, _, _)
simple_paths(G, frontier, target) ==
    LET found == {p \in frontier : p[Len(p)] = target}
        next == UNION {{Append(p, v) :
                          v \in successors(G, p[Len(p)]) \ {p[i] : i \in 1..Len(p)}} :
                       p \in frontier \ found}
    IN  IF frontier = {} THEN {} ELSE found \cup simple_paths(G, next, target)

any_path(G, source, target) == simple_paths(G, {<<source>>}, target)

\* a node is not taken to be reachable from itself
shortest_path_no_trivial(G, source, target) ==
    IF source = target THEN {} ELSE bfs_paths(G, {<<source>>}, {source}, target)

\* nx.shortest_path(graph, source, target): the shortest paths it may return
\* (which one is the library's tie-break), none when it raises NetworkXNoPath
shortest_path(G, source, target) == bfs_paths(G, {<<source>>}, {source}, target)

reversed(s) == [i \in 1..Len(s) |-> s[Len(s) + 1 - i]]

\* the path read off the predecessors and not turned round
compute_route_reversed(G, start, end) ==
    LET paths == shortest_path(G, start, end)
    IN  IF paths = {} THEN {NoRoute} ELSE {reversed(q) : q \in paths}

\* the values compute_route may return
compute_route(G, start, end) ==
    LET paths == shortest_path(G, start, end)
    IN  IF paths = {} THEN {NoRoute} ELSE paths

-----------------------------------------------------------------------------
(* Log lines and spoken messages *)

Line(tts, text, arg) == [tts |-> tts, text |-> text, arg |-> arg]

\* add_log(message)
add_log(log, text, arg) == Append(log, Line(FALSE, text, arg))

\* speak(engine, message): add_log(f"[TTS] {message}"), then say it
speak(log, text, arg) == Append(log, Line(TRUE, text, arg))

StartConfirmed(name) == Line(TRUE, "Starting location detected: ", <<name>>)
InvalidDestination == Line(TRUE, "Invalid destination code. Please try again.", <<>>)
RecognitionRetryUnintelligible ==
    Line(TRUE, "Sorry, I did not understand. Please try again.", <<>>)
RecognitionRetryNetwork ==
    Line(TRUE, "Could not request results; please check your network connection.", <<>>)
RouteAnnounced(r) == Line(TRUE, "Route found: ", join(r))
NavigationAborted ==
    Line(TRUE, "No path found to the destination. Exiting navigation.", <<>>)
ArrivedAtWaypoint(name) == Line(TRUE, "You are at ", <<name>>)
NextWaypointHint(name) == Line(TRUE, "Next, please take 10 steps forward to ", <<name>>)
UnexpectedWaypoint ==
    Line(TRUE, "This is not the expected QR code. Please keep scanning.", <<>>)
DestinationReached ==
    Line(TRUE, "You have reached your destination. Navigation complete.", <<>>)

-----------------------------------------------------------------------------
(* Inputs *)

\* what detector.detectAndDecode may give for a frame: "" when there is no QR code
FrameData ==
    {A1, A2, A3, B1, <<" ">> \o A1 \o <<" ">>, <<"a", "1">>, <<>>, <<" ">>}

\* what recognizer.recognize_google may give
VoiceCommands == {A1, A2, A3, B1, <<"a", "2">>, <<" ", "b", "1">>}

\* the exceptions of the speech recognizer
VoiceFailures == {"WaitTimeoutError", "UnknownValueError", "RequestError"}

\* detect_qr_code(frame)
detect_qr_code(data) == IF data # <<>> THEN strip(data) ELSE None

-----------------------------------------------------------------------------
(* The module's globals besides the log *)

\* the browsers that may open /logs
Clients == {"c1", "c2"}

\* a generator of stream_logs: its position, the loop variable i, the end of
\* the range it iterates, the lines it has yielded to its client, and the
\* length of the log when the client connected
NoStream == [pc |-> "closed", i |-> 0, stop |-> 0, out |-> <<>>, since |-> 0]

InitServer ==
    /\ gps_data = [latitude |-> "None", longitude |-> "None", altitude |-> "None",
                   status |-> "Waiting for GPS fix..."]
    /\ pc_gps = "connect"
    /\ last_sse_index = 0
    /\ sse = [c \in Clients |-> NoStream]

-----------------------------------------------------------------------------
(* main() *)

\* `x and x in qr_data`
known(x, qr) == Truthy(x) /\ x \in DOMAIN qr

\* route[route_index] (route is a Python list: route[i] is the element i + 1
\* of the sequence)
expected(r, i) == r[i + 1]

\* a waypoint further along the route is taken for the expected one
matches_ahead(c, r, i) == \E j \in (i + 1)..Len(r) : c = r[j]

\* code == route[route_index]
matches(c, r, i) == c = expected(r, i)

\* route_index == len(route) - 1
is_last(r, i) == i = Len(r) - 1

\* route_index = 1 written for route_index += 1
next_index_const(i) == 1

\* route_index += 1
next_index(i) == i + 1

Init ==
    /\ \E cfg \in Configs :
          /\ qr_data = define_qr_locations(cfg.codes)
          /\ edges = cfg.edges
    /\ nav_graph = NoGraph
    /\ picam2 = "none"
    /\ log_messages = <<>>
    /\ pc = "init"
    /\ code = None
    /\ spoken_code = None
    /\ current_location = None
    /\ destination = None
    /\ route = NoRoute
    /\ route_index = 0
    /\ InitServer

\* steps 1-4 and the prompt of step 5
Startup ==
    /\ pc = "init"
    /\ picam2' = "started"
    /\ nav_graph' = build_graph(qr_data, edges)
    /\ log_messages' =
          speak(add_log(add_log(add_log(log_messages,
                    "[System] Camera initialized.", <<>>),
                    "[System] Flask server started on port 5000.", <<>>),
                    "[System] GPS reading thread started.", <<>>),
                "Please scan the starting QR code.", <<>>)
    /\ pc' = "scan_start"
    /\ UNCHANGED server_vars
    /\ UNCHANGED <<qr_data, edges, code, spoken_code, current_location,
                   destination, route, route_index>>

\* step 5, the capture of one frame
ScanStart(data) ==
    /\ pc = "scan_start"
    /\ code' = detect_qr_code(data)
    /\ pc' = "check_start"
    /\ UNCHANGED server_vars
    /\ UNCHANGED <<qr_data, edges, nav_graph, picam2, log_messages, spoken_code,
                   current_location, destination, route, route_index>>

\* current_location = code written before the test, not under it
CheckStart_unguarded ==
    /\ pc = "check_start"
    /\ current_location' = code
    /\ IF known(code, qr_data)
       THEN log_messages' =
               speak(log_messages, "Starting location detected: ", <<qr_data[code]>>)
       ELSE UNCHANGED log_messages
    /\ pc' = IF current_location' = None THEN "scan_start" ELSE "listen"
    /\ UNCHANGED server_vars
    /\ UNCHANGED <<qr_data, edges, nav_graph, picam2, code, spoken_code,
                   destination, route, route_index>>

\* step 5, the test of the decoded string
CheckStart ==
    /\ pc = "check_start"
    /\ IF known(code, qr_data)
       THEN /\ current_location' = code
            /\ log_messages' =
                  speak(log_messages, "Starting location detected: ", <<qr_data[code]>>)
            /\ pc' = "listen"
       ELSE /\ pc' = "scan_start"
            /\ UNCHANGED <<current_location, log_messages>>
    /\ UNCHANGED server_vars
    /\ UNCHANGED <<qr_data, edges, nav_graph, picam2, code, spoken_code,
                   destination, route, route_index>>

\* get_destination_voice(engine) on what the recognizer does with the audio:
\* the lines it logs, the value it returns, and whether an exception leaves it.
\* recognizer.listen(source, timeout=5, ...) is outside the try block, so its
\* WaitTimeoutError is not caught.
get_destination_voice(log, heard) ==
    LET prompted ==
            add_log(speak(log, "Please say your destination code after the beep.", <<>>),
                    "Listening for destination code...", <<>>)
    IN  CASE heard.kind = "WaitTimeoutError" ->
               [log |-> prompted, value |-> None, raised |-> TRUE]
          [] heard.kind = "UnknownValueError" ->
               [log |-> speak(prompted,
                              "Sorry, I did not understand. Please try again.", <<>>),
                value |-> None, raised |-> FALSE]
          [] heard.kind = "RequestError" ->
               [log |-> speak(prompted,
                    "Could not request results; please check your network connection.",
                    <<>>),
                value |-> None, raised |-> FALSE]
          [] OTHER ->
               [log |-> add_log(prompted, "Recognized (voice): ", heard.text),
                value |-> upper(strip(heard.text)), raised |-> FALSE]

\* step 6, the call of get_destination_voice
Listen(heard) ==
    /\ pc = "listen"
    /\ Len(log_messages) < MaxLog
    /\ LET r == get_destination_voice(log_messages, heard)
       IN  /\ log_messages' = r.log
           /\ IF r.raised
              THEN pc' = "raised" /\ UNCHANGED spoken_code
              ELSE pc' = "check_dest" /\ spoken_code' = r.value
    /\ UNCHANGED server_vars
    /\ UNCHANGED <<qr_data, edges, nav_graph, picam2, code, current_location,
                   destination, route, route_index>>

\* step 6, the test of the spoken code and of the loop condition
CheckDestination ==
    /\ pc = "check_dest"
    /\ IF known(spoken_code, qr_data)
       THEN /\ destination' = spoken_code
            /\ pc' = "plan"
            /\ UNCHANGED log_messages
       ELSE /\ log_messages' =
                  speak(log_messages, "Invalid destination code. Please try again.", <<>>)
            /\ pc' = "listen"
            /\ UNCHANGED destination
    /\ UNCHANGED server_vars
    /\ UNCHANGED <<qr_data, edges, nav_graph, picam2, code, spoken_code,
                   current_location, route, route_index>>

\* no path answered by asking for another destination
Plan_retry ==
    /\ pc = "plan"
    /\ \E r \in compute_route(nav_graph, current_location, destination) :
          /\ route' = r
          /\ IF r = NoRoute
             THEN /\ log_messages' =
                        add_log(speak(log_messages,
                            "No path found to the destination. Exiting navigation.", <<>>),
                            "[System] No path found, navigation ended.", <<>>)
                  /\ pc' = "listen"
                  /\ UNCHANGED route_index
             ELSE /\ log_messages' =
                        add_log(speak(log_messages, "Route found: ", join(r)),
                                "[Navigation] Route: ", join(r))
                  /\ route_index' = 0
                  /\ pc' = "scan_nav"
    /\ UNCHANGED server_vars
    /\ UNCHANGED <<qr_data, edges, nav_graph, picam2, code, spoken_code,
                   current_location, destination>>

\* step 7
\* the start, scanned before the route was planned, counts as reached
Plan_from_start ==
    /\ pc = "plan"
    /\ \E r \in compute_route(nav_graph, current_location, destination) :
          /\ route' = r
          /\ IF r = NoRoute
             THEN /\ log_messages' =
                        add_log(speak(log_messages,
                            "No path found to the destination. Exiting navigation.", <<>>),
                            "[System] No path found, navigation ended.", <<>>)
                  /\ pc' = "aborted"
                  /\ UNCHANGED route_index
             ELSE /\ log_messages' =
                        add_log(speak(log_messages, "Route found: ", join(r)),
                                "[Navigation] Route: ", join(r))
                  /\ route_index' = IF Len(r) > 1 THEN 1 ELSE 0
                  /\ pc' = "scan_nav"
    /\ UNCHANGED server_vars
    /\ UNCHANGED <<qr_data, edges, nav_graph, picam2, code, spoken_code,
                   current_location, destination>>

Plan ==
    /\ pc = "plan"
    /\ \E r \in compute_route(nav_graph, current_location, destination) :
          /\ route' = r
          /\ IF r = NoRoute
             THEN /\ log_messages' =
                        add_log(speak(log_messages,
                            "No path found to the destination. Exiting navigation.", <<>>),
                            "[System] No path found, navigation ended.", <<>>)
                  /\ pc' = "aborted"
                  /\ UNCHANGED route_index
             ELSE /\ log_messages' =
                        add_log(speak(log_messages, "Route found: ", join(r)),
                                "[Navigation] Route: ", join(r))
                  /\ route_index' = 0
                  /\ pc' = "scan_nav"
    /\ UNCHANGED server_vars
    /\ UNCHANGED <<qr_data, edges, nav_graph, picam2, code, spoken_code,
                   current_location, destination>>

\* step 8, the capture of one frame
ScanNav(data) ==
    /\ pc = "scan_nav"
    /\ Len(log_messages) < MaxLog
    /\ code' = detect_qr_code(data)
    /\ pc' = "check_nav"
    /\ UNCHANGED server_vars
    /\ UNCHANGED <<qr_data, edges, nav_graph, picam2, log_messages, spoken_code,
                   current_location, destination, route, route_index>>

\* the else of line 461 attached to the outer if: every scan that is not the
\* expected waypoint is answered
CheckNav_outer_else ==
    /\ pc = "check_nav"
    /\ IF known(code, qr_data) /\ matches(code, route, route_index)
       THEN LET here == speak(log_messages, "You are at ", <<qr_data[code]>>)
            IN  IF is_last(route, route_index)
                THEN /\ log_messages' =
                           add_log(speak(here,
                               "You have reached your destination. Navigation complete.",
                               <<>>),
                               "[System] Destination reached.", <<>>)
                     /\ pc' = "cleanup"
                     /\ UNCHANGED route_index
                ELSE /\ route_index' = next_index(route_index)
                     /\ log_messages' =
                           speak(here, "Next, please take 10 steps forward to ",
                                 <<qr_data[expected(route, route_index')]>>)
                     /\ pc' = "scan_nav"
       ELSE /\ log_messages' =
                  speak(log_messages,
                        "This is not the expected QR code. Please keep scanning.", <<>>)
            /\ pc' = "scan_nav"
            /\ UNCHANGED route_index
    /\ UNCHANGED server_vars
    /\ UNCHANGED <<qr_data, edges, nav_graph, picam2, code, spoken_code,
                   current_location, destination, route>>

\* step 8, the test of the decoded string
\* a scan out of turn sends the user back to the start of the route
CheckNav_restart ==
    /\ pc = "check_nav"
    /\ IF known(code, qr_data)
       THEN IF matches(code, route, route_index)
            THEN LET here == speak(log_messages, "You are at ", <<qr_data[code]>>)
                 IN  IF is_last(route, route_index)
                     THEN /\ log_messages' =
                                add_log(speak(here,
                                    "You have reached your destination. Navigation complete.",
                                    <<>>),
                                    "[System] Destination reached.", <<>>)
                          /\ pc' = "cleanup"
                          /\ UNCHANGED route_index
                     ELSE /\ route_index' = next_index(route_index)
                          /\ log_messages' =
                                speak(here, "Next, please take 10 steps forward to ",
                                      <<qr_data[expected(route, route_index')]>>)
                          /\ pc' = "scan_nav"
            ELSE /\ log_messages' =
                       speak(log_messages,
                             "This is not the expected QR code. Please keep scanning.", <<>>)
                 /\ pc' = "scan_nav"
                 /\ route_index' = 0
       ELSE /\ pc' = "scan_nav"
            /\ UNCHANGED <<log_messages, route_index>>
    /\ UNCHANGED server_vars
    /\ UNCHANGED <<qr_data, edges, nav_graph, picam2, code, spoken_code,
                   current_location, destination, route>>

CheckNav ==
    /\ pc = "check_nav"
    /\ IF known(code, qr_data)
       THEN IF matches(code, route, route_index)
            THEN LET here == speak(log_messages, "You are at ", <<qr_data[code]>>)
                 IN  IF is_last(route, route_index)
                     THEN /\ log_messages' =
                                add_log(speak(here,
                                    "You have reached your destination. Navigation complete.",
                                    <<>>),
                                    "[System] Destination reached.", <<>>)
                          /\ pc' = "cleanup"
                          /\ UNCHANGED route_index
                     ELSE /\ route_index' = next_index(route_index)
                          /\ log_messages' =
                                speak(here, "Next, please take 10 steps forward to ",
                                      <<qr_data[expected(route, route_index')]>>)
                          /\ pc' = "scan_nav"
            ELSE /\ log_messages' =
                       speak(log_messages,
                             "This is not the expected QR code. Please keep scanning.", <<>>)
                 /\ pc' = "scan_nav"
                 /\ UNCHANGED route_index
       ELSE /\ pc' = "scan_nav"
            /\ UNCHANGED <<log_messages, route_index>>
    /\ UNCHANGED server_vars
    /\ UNCHANGED <<qr_data, edges, nav_graph, picam2, code, spoken_code,
                   current_location, destination, route>>

\* step 9
Cleanup ==
    /\ pc = "cleanup"
    /\ picam2' = "stopped"
    /\ log_messages' =
          add_log(log_messages, "[System] Navigation ended. Camera stopped.", <<>>)
    /\ pc' = "done"
    /\ UNCHANGED server_vars
    /\ UNCHANGED <<qr_data, edges, nav_graph, code, spoken_code, current_location,
                   destination, route, route_index>>

\* what the recognizer may do with one recording
Heard ==
    {[kind |-> "text", text |-> c] : c \in VoiceCommands}
    \cup {[kind |-> f, text |-> <<>>] : f \in VoiceFailures}

Next ==
    \/ Startup
    \/ \E data \in FrameData : ScanStart(data)
    \/ CheckStart
    \/ \E heard \in Heard : Listen(heard)
    \/ CheckDestination
    \/ Plan
    \/ \E data \in FrameData : ScanNav(data)
    \/ CheckNav
    \/ Cleanup

Spec == Init /\ [][Next]_vars

-----------------------------------------------------------------------------
(* read_gps(), started by main() as a daemon thread *)

\* what one pass of the reading loop may meet: a $GNRMC sentence (no altitude),
\* a $GNGGA sentence, a sentence pynmea2 cannot parse, a sentence of another
\* type, and an exception of readline
Sentences == {"GNRMC", "GNGGA", "ParseError", "other", "Exception"}

\* serial.Serial(port, baud_rate, timeout=1)
GpsConnect(ok) ==
    /\ pc # "init"
    /\ pc_gps = "connect"
    /\ IF ok
       THEN /\ log_messages' =
                  add_log(log_messages, "Connected to /dev/ttyS0 at 9600 baud for GPS.",
                          <<>>)
            /\ pc_gps' = "read"
       ELSE /\ log_messages' =
                  add_log(log_messages, "Error connecting to serial port: ", <<>>)
            /\ pc_gps' = "returned"
    /\ UNCHANGED main_vars
    /\ UNCHANGED <<gps_data, last_sse_index, sse>>

\* the GPS fix is taken for the user's position in the session
GpsRead_tracks(sentence) ==
    /\ pc_gps = "read"
    /\ gps_data' = [gps_data EXCEPT !.status = "GPS Fix Acquired"]
    /\ current_location' = A1
    /\ UNCHANGED <<qr_data, edges, nav_graph, picam2, pc, code, spoken_code,
                   destination, route, route_index>>
    /\ UNCHANGED <<log_messages, pc_gps, last_sse_index, sse>>

\* one pass of the reading loop
GpsRead(sentence) ==
    /\ pc_gps = "read"
    /\ gps_data' =
          CASE sentence = "GNRMC" ->
                 [gps_data EXCEPT !.latitude = "msg.latitude",
                                  !.longitude = "msg.longitude",
                                  !.status = "GPS Fix Acquired"]
            [] sentence = "GNGGA" ->
                 [gps_data EXCEPT !.latitude = "msg.latitude",
                                  !.longitude = "msg.longitude",
                                  !.altitude = "msg.altitude",
                                  !.status = "GPS Fix Acquired"]
            [] sentence = "ParseError" -> [gps_data EXCEPT !.status = "GPS Parsing Error"]
            [] sentence = "Exception" -> [gps_data EXCEPT !.status = "Error: "]
            [] OTHER -> gps_data
    /\ UNCHANGED main_vars
    /\ UNCHANGED <<log_messages, pc_gps, last_sse_index, sse>>

-----------------------------------------------------------------------------
(* The Flask handlers, served once main() has started the server thread *)

\* index(): render_template("index.html"), no global is written
Index ==
    /\ pc # "init"
    /\ UNCHANGED vars

\* video_feed(): one frame of generate_frames(), read from the running camera
VideoFeed ==
    /\ picam2 = "started"
    /\ UNCHANGED vars

\* get_gps_data(): jsonify(gps_data), read only
GetGpsData ==
    /\ pc # "init"
    /\ UNCHANGED vars

\* sse_logs(): a client opens /logs and gets a new stream_logs generator
SseLogs(c) ==
    /\ pc # "init"
    /\ sse[c].pc = "closed"
    /\ sse' = [sse EXCEPT ![c] = [NoStream EXCEPT !.pc = "test",
                                                   !.since = Len(log_messages)]]
    /\ UNCHANGED main_vars
    /\ UNCHANGED <<log_messages, gps_data, pc_gps, last_sse_index>>

\* stream_logs(): if last_sse_index < len(log_messages); if not, time.sleep(1)
\* and the test again
StreamTest(c) ==
    /\ sse[c].pc = "test"
    /\ sse' = [sse EXCEPT ![c].pc =
                  IF last_sse_index < Len(log_messages) THEN "range" ELSE "test"]
    /\ UNCHANGED main_vars
    /\ UNCHANGED <<log_messages, gps_data, pc_gps, last_sse_index>>

\* stream_logs(): range(last_sse_index, len(log_messages)), evaluated once
StreamRange(c) ==
    /\ sse[c].pc = "range"
    /\ sse' = [sse EXCEPT ![c].i = last_sse_index,
                          ![c].stop = Len(log_messages),
                          ![c].pc = IF last_sse_index < Len(log_messages)
                                    THEN "yield" ELSE "advance"]
    /\ UNCHANGED main_vars
    /\ UNCHANGED <<log_messages, gps_data, pc_gps, last_sse_index>>

\* stream_logs(): yield log_messages[i], and the step of the for loop
StreamYield(c) ==
    /\ sse[c].pc = "yield"
    /\ sse' = [sse EXCEPT ![c].out = Append(@, log_messages[sse[c].i + 1]),
                          ![c].i = @ + 1,
                          ![c].pc = IF sse[c].i + 1 < sse[c].stop
                                    THEN "yield" ELSE "advance"]
    /\ UNCHANGED main_vars
    /\ UNCHANGED <<log_messages, gps_data, pc_gps, last_sse_index>>

\* stream_logs(): last_sse_index = len(log_messages), then time.sleep(1)
StreamAdvance(c) ==
    /\ sse[c].pc = "advance"
    /\ last_sse_index' = Len(log_messages)
    /\ sse' = [sse EXCEPT ![c].pc = "test"]
    /\ UNCHANGED main_vars
    /\ UNCHANGED <<log_messages, gps_data, pc_gps>>

-----------------------------------------------------------------------------
(* main() with its two threads: one table and edge list, a few inputs, one
   client of /logs *)

\* main() takes no input once the log holds this many lines
ThreadsLog == 11

ThreadsFrames == {A1, A2}

ThreadsHeard == {[kind |-> "text", text |-> A2]}

InitThreads == Init /\ DOMAIN qr_data = {A1, A2} /\ edges = <<<<A1, A2>>>>

NextThreads ==
    \/ Startup
    \/ \E data \in ThreadsFrames : ScanStart(data)
    \/ CheckStart
    \/ \E heard \in ThreadsHeard : Len(log_messages) < ThreadsLog /\ Listen(heard)
    \/ CheckDestination
    \/ Plan
    \/ \E data \in ThreadsFrames : Len(log_messages) < ThreadsLog /\ ScanNav(data)
    \/ CheckNav
    \/ Cleanup
    \/ \E ok \in BOOLEAN : GpsConnect(ok)
    \/ \E sentence \in Sentences : GpsRead(sentence)
    \/ Index
    \/ VideoFeed
    \/ GetGpsData
    \/ SseLogs("c1")
    \/ StreamTest("c1")
    \/ StreamRange("c1")
    \/ StreamYield("c1")
    \/ StreamAdvance("c1")

SpecThreads == InitThreads /\ [][NextThreads]_vars

-----------------------------------------------------------------------------
(* The log and its readers: main() up to the confirmed start and the opening
   of the serial port write the log, two clients of /logs read it *)

NextSSE ==
    \/ Startup
    \/ ScanStart(A1)
    \/ CheckStart
    \/ \E ok \in BOOLEAN : GpsConnect(ok)
    \/ \E c \in Clients : SseLogs(c)
    \/ \E c \in Clients : StreamTest(c)
    \/ \E c \in Clients : StreamRange(c)
    \/ \E c \in Clients : StreamYield(c)
    \/ \E c \in Clients : StreamAdvance(c)

SpecSSE == InitThreads /\ [][NextSSE]_vars

-----------------------------------------------------------------------------
(* compute_route on its own: every edge list over four waypoints, every pair *)

PlanCodes == {A1, A2, B1, A3}

PlanEdges ==
    SubLists(<<<<A1, A2>>, <<A2, B1>>, <<B1, A3>>, <<A3, A1>>, <<A1, B1>>, <<A2, A3>>>>)

InitPlan ==
    /\ qr_data = define_qr_locations(PlanCodes)
    /\ edges \in PlanEdges
    /\ nav_graph = build_graph(qr_data, edges)
    /\ current_location \in PlanCodes
    /\ destination \in PlanCodes
    /\ route = NoRoute
    /\ pc = "call"
    /\ picam2 = "none"
    /\ log_messages = <<>>
    /\ code = None
    /\ spoken_code = None
    /\ route_index = 0
    /\ InitServer

\* route = compute_route(nav_graph, current_location, destination)
ComputeRoute ==
    /\ pc = "call"
    /\ route' \in compute_route(nav_graph, current_location, destination)
    /\ pc' = "return"
    /\ UNCHANGED server_vars
    /\ UNCHANGED <<qr_data, edges, nav_graph, picam2, log_messages, code, spoken_code,
                   current_location, destination, route_index>>

NextPlan == ComputeRoute

SpecPlan == InitPlan /\ [][NextPlan]_vars

-----------------------------------------------------------------------------
(* build_graph on its own: every edge list of up to MaxEdges pairs over three
   waypoints, repeated and reversed pairs and loops included *)

GraphCodes == {A1, A2, B1}

RECURSIVE ListsUpTo(_, _)
ListsUpTo(S, n) ==
    IF n = 0 THEN {<<>>}
    ELSE LET shorter == ListsUpTo(S, n - 1)
         IN  shorter \cup {Append(l, x) : l \in shorter, x \in S}

InitGraph ==
    /\ qr_data = define_qr_locations(GraphCodes)
    /\ edges \in ListsUpTo(GraphCodes \X GraphCodes, MaxEdges)
    /\ nav_graph = NoGraph
    /\ pc = "build"
    /\ picam2 = "none"
    /\ log_messages = <<>>
    /\ code = None
    /\ spoken_code = None
    /\ current_location = None
    /\ destination = None
    /\ route = NoRoute
    /\ route_index = 0
    /\ InitServer

\* nav_graph = build_graph(qr_data)
BuildGraph ==
    /\ pc = "build"
    /\ nav_graph' = build_graph(qr_data, edges)
    /\ pc' = "built"
    /\ UNCHANGED server_vars
    /\ UNCHANGED <<qr_data, edges, picam2, log_messages, code, spoken_code,
                   current_location, destination, route, route_index>>

NextGraph == BuildGraph

SpecGraph == InitGraph /\ [][NextGraph]_vars

-----------------------------------------------------------------------------
(* main() on the shipped table and edge list, up to the planned route: every
   start and every destination of the table *)

InitShipped ==
    /\ qr_data = define_qr_locations(ShippedCodes)
    /\ edges = ShippedEdges
    /\ nav_graph = NoGraph
    /\ picam2 = "none"
    /\ log_messages = <<>>
    /\ pc = "init"
    /\ code = None
    /\ spoken_code = None
    /\ current_location = None
    /\ destination = None
    /\ route = NoRoute
    /\ route_index = 0
    /\ InitServer

NextShipped ==
    \/ Startup
    \/ \E data \in ShippedCodes : ScanStart(data)
    \/ CheckStart
    \/ \E c \in ShippedCodes : Listen([kind |-> "text", text |-> c])
    \/ CheckDestination
    \/ Plan

SpecShipped == InitShipped /\ [][NextShipped]_vars

\* the state of the navigation session, read off the position of main()
state ==
    CASE pc \in {"init", "scan_start", "check_start"} -> "AwaitingStart"
      [] pc \in {"listen", "check_dest"} -> "AwaitingDestination"
      [] pc = "plan" -> "RoutePlanned"
      [] pc \in {"scan_nav", "check_nav"} -> "Navigating"
      [] pc \in {"cleanup", "done"} -> "Arrived"
      [] pc = "aborted" -> "Aborted"
      [] pc = "raised" -> "Raised"
      [] OTHER -> "None"

-----------------------------------------------------------------------------
(* Properties *)

\* the lines a step appends to the log
Emitted == SubSeq(log_messages', Len(log_messages) + 1, Len(log_messages'))

IsSpoken(l) == l.tts

\* the spoken lines among `lines`
Spoken(lines) == SelectSeq(lines, IsSpoken)

\* the last n lines of the log
LastLines(n) == SubSeq(log_messages, Len(log_messages) - n + 1, Len(log_messages))

\* main() takes its step at position p
Step(p) == pc = p /\ pc' # p

\* C1: in Navigating, a scan whose code equals route[routeIndex] emits
\* ArrivedAtWaypoint; at the last index it then emits DestinationReached and
\* the session becomes Arrived; otherwise routeIndex increases by exactly 1,
\* the session stays Navigating and NextWaypointHint names route[new routeIndex].
C1_MatchingScan ==
    [][(state = "Navigating" /\ Step("check_nav") /\ code = route[route_index + 1])
       => IF route_index = Len(route) - 1
          THEN /\ Spoken(Emitted) =
                     <<ArrivedAtWaypoint(qr_data[code]), DestinationReached>>
               /\ state' = "Arrived"
               /\ route_index' = route_index
          ELSE /\ route_index' = route_index + 1
               /\ state' = "Navigating"
               /\ Spoken(Emitted) =
                     <<ArrivedAtWaypoint(qr_data[code]),
                       NextWaypointHint(qr_data[route[route_index' + 1]])>>]_vars

\* a route of four waypoints walked to its end: three increments and the arrival
C1_Witness ==
    /\ pc = "cleanup"
    /\ Len(route) = 4
    /\ route_index = 3
    /\ Spoken(LastLines(5)) =
          <<ArrivedAtWaypoint(qr_data[route[3]]), NextWaypointHint(qr_data[route[4]]),
            ArrivedAtWaypoint(qr_data[route[4]]), DestinationReached>>

\* end-to-end scenario 1: the table {A1, A2} and the edge (A1, A2)
Scenario1 == DOMAIN qr_data = {A1, A2} /\ edges = <<<<A1, A2>>>>

\* scenario 1 up to the planned route: scan A1, voice A2, route [A1, A2],
\* Navigating, routeIndex 0
Scenario1_Planning ==
    /\ (Step("check_start") /\ code = A1)
          => current_location' = A1 /\ state' = "AwaitingDestination"
    /\ (Step("check_dest") /\ spoken_code = A2)
          => destination' = A2 /\ state' = "RoutePlanned"
    /\ (Step("plan") /\ current_location = A1 /\ destination = A2)
          => route' = <<A1, A2>> /\ state' = "Navigating" /\ route_index' = 0

\* C2 as stated: in scenario 1, once the route [A1, A2] is planned, a single
\* scan of A2 emits DestinationReached and the session is Arrived.
C2_Original ==
    [][Scenario1
       => /\ Scenario1_Planning
          /\ (Step("check_nav") /\ route = <<A1, A2>> /\ route_index = 0 /\ code = A2)
                => /\ state' = "Arrived"
                   /\ \E i \in 1..Len(Emitted) : Emitted[i] = DestinationReached]_vars

\* C2 as amended: in scenario 1, scan A1 then voice A2 gives route [A1, A2],
\* Navigating and routeIndex 0; from there a scan of A2 is answered with
\* UnexpectedWaypoint and changes nothing, a scan of A1 moves routeIndex to 1,
\* and the scan of A2 that follows it emits DestinationReached and the session
\* is Arrived.
C2_Scenario1 ==
    [][Scenario1
       => /\ Scenario1_Planning
          /\ (Step("check_nav") /\ route = <<A1, A2>> /\ route_index = 0 /\ code = A2)
                => /\ state' = "Navigating"
                   /\ route_index' = 0
                   /\ Spoken(Emitted) = <<UnexpectedWaypoint>>
          /\ (Step("check_nav") /\ route = <<A1, A2>> /\ route_index = 0 /\ code = A1)
                => state' = "Navigating" /\ route_index' = 1
          /\ (Step("check_nav") /\ route = <<A1, A2>> /\ route_index = 1 /\ code = A2)
                => /\ state' = "Arrived"
                   /\ \E i \in 1..Len(Emitted) : Emitted[i] = DestinationReached]_vars

\* scenario 1 run to its end
C2_Witness ==
    /\ Scenario1
    /\ current_location = A1
    /\ spoken_code = A2
    /\ route = <<A1, A2>>
    /\ code = A2
    /\ pc = "done"

\* C3: in Navigating, a scan of a code that is in the catalog but differs from
\* route[routeIndex] emits UnexpectedWaypoint and leaves state, routeIndex,
\* route, currentLocation and destination unchanged.
C3_UnexpectedScan ==
    [][(state = "Navigating" /\ Step("check_nav")
          /\ code \in DOMAIN qr_data /\ code # route[route_index + 1])
       => /\ Spoken(Emitted) = <<UnexpectedWaypoint>>
          /\ state' = state
          /\ UNCHANGED <<route_index, route, current_location, destination>>]_vars

\* route [A1, B1, A3], B1 expected, A3 scanned
C3_Witness ==
    /\ pc = "scan_nav"
    /\ route = <<A1, B1, A3>>
    /\ route_index = 1
    /\ code = A3
    /\ LastLines(1) = <<UnexpectedWaypoint>>

\* a decoded string that is None, empty or not in the catalog
Unknown(c) == c = None \/ c = <<>> \/ c \notin DOMAIN qr_data

\* C4: a scan whose code is empty, undecoded or not in the catalog never
\* changes state or routeIndex and emits nothing, in any state and however
\* often it is delivered: neither the capture of the frame nor the test of an
\* unknown code does.
C4_UnknownScanIgnored ==
    [][(\/ pc \in {"scan_start", "scan_nav"}
        \/ (pc \in {"check_start", "check_nav"} /\ Unknown(code)))
       => /\ state' = state
          /\ route_index' = route_index
          /\ log_messages' = log_messages]_vars

\* an undecoded frame consumed in Navigating, after progress along the route
C4_Witness ==
    /\ pc = "scan_nav"
    /\ code = None
    /\ route_index = 1
    /\ LastLines(1) = <<NextWaypointHint(qr_data[route[2]])>>

IsStartConfirmed(l) == l.tts /\ l.text = "Starting location detected: "

\* C5: in AwaitingStart a scan whose code is in the catalog is recorded as
\* currentLocation, StartConfirmed is emitted with that code's name and the
\* session moves to AwaitingDestination; the log holds StartConfirmed exactly
\* once from then on, and currentLocation never changes afterwards.
C5_StartRecordedOnce ==
    /\ [](IF current_location = None
          THEN SelectSeq(log_messages, IsStartConfirmed) = <<>>
          ELSE /\ current_location \in DOMAIN qr_data
               /\ SelectSeq(log_messages, IsStartConfirmed) =
                     <<StartConfirmed(qr_data[current_location])>>)
    /\ [][/\ (state = "AwaitingStart" /\ Step("check_start") /\ ~Unknown(code))
              => /\ current_location' = code
                 /\ Emitted = <<StartConfirmed(qr_data[code])>>
                 /\ state' = "AwaitingDestination"
          /\ current_location # None => current_location' = current_location]_vars

\* a session that started at B1 and went on to consume voice and scan events
C5_Witness ==
    /\ current_location = B1
    /\ destination = A1
    /\ pc = "scan_nav"
    /\ route_index = 1
    /\ code = B1

\* C6 as stated: in AwaitingDestination every voice failure (Timeout,
\* Unintelligible, NetworkError) leaves the session in AwaitingDestination with
\* destination unset, and no failed or noisy input ends the session.
C6_VoiceFailureKeepsSession ==
    [][/\ Step("listen")
          => state' = "AwaitingDestination" /\ destination' = None
       /\ (Step("check_dest") /\ spoken_code = None)
          => pc' = "listen" /\ destination' = None]_vars

\* C7 as stated: a recognition failure is answered with RecognitionRetry and
\* not with InvalidDestination; InvalidDestination answers only a recognized
\* code that is not in the catalog.
C7_InvalidOnlyForRecognized ==
    [][(\E i \in 1..Len(Emitted) : Emitted[i] = InvalidDestination)
       => spoken_code # None /\ spoken_code \notin DOMAIN qr_data]_vars

\* a reference search: the nodes within k edges of s
RECURSIVE Ball(_, _, _)
Ball(G, s, k) ==
    IF k = 0 THEN {s}
    ELSE LET b == Ball(G, s, k - 1)
         IN  b \cup {v \in G.nodes : \E u \in b : <<u, v>> \in G.adj}

Reachable(G, s, t) == t \in Ball(G, s, Cardinality(G.nodes))

\* the breadth-first distance from s to t, t reachable
Distance(G, s, t) ==
    CHOOSE k \in 0..Cardinality(G.nodes) :
        t \in Ball(G, s, k) /\ \A j \in 0..(k - 1) : t \notin Ball(G, s, j)

\* C8: when planning finds no path the session emits NavigationAborted and
\* enters Aborted without another prompt; Arrived and Aborted are absorbing:
\* no later step consumes an event, changes a session field or speaks.
C8_AbortAndTerminal ==
    [][/\ (Step("plan") /\ ~Reachable(nav_graph, current_location, destination))
          => Spoken(Emitted) = <<NavigationAborted>> /\ state' = "Aborted"
       /\ state \in {"Arrived", "Aborted"}
          => /\ state' = state
             /\ Spoken(Emitted) = <<>>
             /\ UNCHANGED <<current_location, destination, route, route_index,
                            code, spoken_code>>]_vars

\* end-to-end scenario 2: two waypoints and no edge
C8_Witness ==
    /\ DOMAIN qr_data = {A1, A2}
    /\ edges = <<>>
    /\ current_location = A1
    /\ destination = A2
    /\ pc = "aborted"
    /\ Spoken(LastLines(2)) = <<NavigationAborted>>

\* u and v are joined by a pair of the edge list, in either order
Adjacent(u, v) == \E k \in 1..Len(edges) : edges[k] \in {<<u, v>>, <<v, u>>}

\* C9: every route the session stores is non-empty, starts at currentLocation,
\* ends at destination, and each two consecutive elements are adjacent.
C9_RouteWellFormed ==
    (state \in {"Navigating", "Arrived"} \/ route # NoRoute)
    => /\ Len(route) >= 1
       /\ route[1] = current_location
       /\ route[Len(route)] = destination
       /\ \A i \in 1..(Len(route) - 1) : Adjacent(route[i], route[i + 1])

\* a stored route of four waypoints that runs against the listed direction
C9_Witness ==
    /\ pc = "scan_nav"
    /\ edges = ShippedPrefix
    /\ route = <<A3, B1, A2, A1>>
    /\ route_index = 0

\* C10: compute_route agrees with the reference search: it returns no route
\* exactly when the destination is unreachable, and otherwise a path from
\* start to end whose edge count is the breadth-first distance.
C10_AgreesWithBFS ==
    pc = "return"
    => LET G == nav_graph
           s == current_location
           t == destination
       IN  /\ route = NoRoute <=> ~Reachable(G, s, t)
           /\ route # NoRoute
              => /\ route[1] = s
                 /\ route[Len(route)] = t
                 /\ \A i \in 1..(Len(route) - 1) : <<route[i], route[i + 1]>> \in G.adj
                 /\ Len(route) - 1 = Distance(G, s, t)

\* a pair two edges apart with two shortest routes, and the one through B1 taken
C10_Witness ==
    /\ pc = "return"
    /\ edges = Ring
    /\ route = <<A1, A3, B1>>

\* C11: planning from a catalog code X to X returns the route [X]; a session
\* whose destination is its start is not aborted: it enters Navigating with
\* route [X] and routeIndex 0, and the next scan of X makes it Arrived.
C11_StartIsDestination ==
    /\ [](pc # "init"
          => \A x \in DOMAIN qr_data : compute_route(nav_graph, x, x) = {<<x>>})
    /\ [][/\ (Step("plan") /\ destination = current_location)
              => /\ route' = <<current_location>>
                 /\ route_index' = 0
                 /\ state' = "Navigating"
          /\ (Step("check_nav") /\ destination = current_location
                 /\ code = current_location)
              => /\ state' = "Arrived"
                 /\ Spoken(Emitted) =
                       <<ArrivedAtWaypoint(qr_data[code]), DestinationReached>>]_vars

\* a session from B1 to B1, arrived on one scan of B1
C11_Witness ==
    /\ current_location = B1
    /\ destination = B1
    /\ route = <<B1>>
    /\ route_index = 0
    /\ pc = "done"

\* C12: the adjacency of the built graph is symmetric, its nodes are the
\* catalog codes, two nodes are joined exactly when the list names them in
\* either order, and however often and in whichever order a pair is listed it
\* gives one edge each way (one edge for a loop).
C12_GraphSymmetric ==
    pc = "built"
    => LET G == nav_graph
       IN  /\ G.nodes = DOMAIN qr_data
           /\ G.adj \subseteq G.nodes \X G.nodes
           /\ \A u, v \in G.nodes :
                 /\ v \in successors(G, u) <=> u \in successors(G, v)
                 /\ v \in successors(G, u) <=> Adjacent(u, v)
                 /\ Adjacent(u, v)
                    => Cardinality({e \in G.adj : e \in {<<u, v>>, <<v, u>>}}) =
                         IF u = v THEN 1 ELSE 2

\* a pair listed twice and once reversed
C12_Witness ==
    /\ pc = "built"
    /\ edges = <<<<A1, A2>>, <<A2, A1>>, <<A1, A2>>>>
    /\ nav_graph.adj = {<<A1, A2>>, <<A2, A1>>}

\* C13: the session fields (current_location, destination, route, route_index
\* and the state) are written by main() alone: a step of read_gps, of a Flask
\* handler or of a stream_logs generator, which is a step that leaves main()
\* where it is or moves one of the threads' own variables, changes none of them,
\* wherever it falls among the steps of main().
C13_OnlyMainWrites ==
    [][(pc' = pc \/ server_vars' # server_vars)
       => /\ current_location' = current_location
          /\ destination' = destination
          /\ route' = route
          /\ route_index' = route_index
          /\ state' = state]_vars

\* the GPS thread has a fix and the client of /logs has lines of the session
\* while main() navigates a planned route
C13_Witness ==
    /\ state = "Navigating" /\ route = <<A1, A2>> /\ destination = A2
    /\ gps_data.status = "GPS Fix Acquired" /\ gps_data.altitude = "msg.altitude"
    /\ Len(sse["c1"].out) > 4
    /\ last_sse_index > 0

IsRouteAnnounced(l) == l.tts /\ l.text = "Route found: "

IsArrivedAtWaypoint(l) == l.tts /\ l.text = "You are at "

IsNextWaypointHint(l) == l.tts /\ l.text = "Next, please take 10 steps forward to "

\* the lines of the log that follow RouteAnnounced
AfterRoute ==
    LET at == {i \in 1..Len(log_messages) : IsRouteAnnounced(log_messages[i])}
    IN  IF at = {} THEN <<>>
        ELSE SubSeq(log_messages, (CHOOSE i \in at : \A j \in at : j <= i) + 1,
                    Len(log_messages))

\* C14: once the route is announced, the ArrivedAtWaypoint directives name
\* route[0], route[1], ... in that order, one per element: as many as routeIndex
\* while Navigating and all of the route once Arrived; the hints name route[1]
\* up to route[routeIndex], so the first hint follows the arrival at the start,
\* which has to be scanned again; each ArrivedAtWaypoint comes from one scan of
\* the expected code, so a route of n waypoints takes n matching scans.
C14_ArrivalsFollowRoute ==
    /\ [](state \in {"Navigating", "Arrived"}
            => LET n == IF state = "Arrived" THEN Len(route) ELSE route_index
               IN  /\ SelectSeq(AfterRoute, IsArrivedAtWaypoint)
                        = [i \in 1..n |-> ArrivedAtWaypoint(qr_data[route[i]])]
                   /\ SelectSeq(AfterRoute, IsNextWaypointHint)
                        = [i \in 1..route_index |->
                              NextWaypointHint(qr_data[route[i + 1]])])
    /\ [][Len(SelectSeq(Emitted, IsArrivedAtWaypoint))
            = IF Step("check_nav") /\ code = expected(route, route_index)
              THEN 1 ELSE 0]_vars

\* a route of three waypoints walked to its end, with a scan out of turn on
\* the way
C14_Witness ==
    /\ state = "Arrived"
    /\ Len(route) = 3
    /\ Len(SelectSeq(AfterRoute, IsArrivedAtWaypoint)) = 3
    /\ \E i \in 1..Len(AfterRoute) : AfterRoute[i] = UnexpectedWaypoint

\* C15: while the session is Navigating route_index is an index of the route,
\* 0 <= route_index <= len(route) - 1, and the check of one scan leaves it as it
\* is or adds one to it, whatever the scans are: it never decreases.
C15_IndexInRange ==
    /\ [](state = "Navigating" => route_index >= 0 /\ route_index <= Len(route) - 1)
    /\ [][(state = "Navigating" /\ state' \in {"Navigating", "Arrived"})
            => /\ route_index' \in {route_index, route_index + 1}
               /\ route_index' # route_index => Step("check_nav")]_vars

\* the index has moved twice and a scan out of turn has left it where it was
C15_Witness ==
    /\ state = "Navigating"
    /\ route_index = 2
    /\ Len(route) = 3
    /\ LastLines(1) = <<UnexpectedWaypoint>>

\* C16: on the shipped table and edge list every pair of codes is connected
\* in the graph main() builds, so for every start and destination of the table
\* planning finds a route and the session goes on to Navigating: the no-path
\* outcome, Aborted, is never reached.
C16_ShippedConnected ==
    /\ [](pc = "scan_start"
            => \A s \in ShippedCodes : Ball(nav_graph, s, Len(ShippedEdges)) = ShippedCodes)
    /\ [](state # "Aborted")
    /\ [][Step("plan")
            => /\ current_location \in ShippedCodes /\ destination \in ShippedCodes
               /\ route' # NoRoute
               /\ state' = "Navigating"]_vars

\* from the lift, the one waypoint off the ring, to the far side of the ring
C16_Witness ==
    /\ DOMAIN qr_data = ShippedCodes /\ edges = ShippedEdges
    /\ state = "Navigating"
    /\ current_location = A12 /\ destination = A5
    /\ Len(route) = 12
    /\ route[2] = A11 /\ route[Len(route)] = A5

\* the lines a client of /logs has been sent
Sent(c) == sse[c].out

\* C17: with one client of /logs, the lines it has been sent are the log from
\* its first line on, each once and in the order of the appends, none skipped
\* when last_sse_index is advanced; and once the cursor has caught up with the
\* log and the generator is back at its test, the client has the whole log.
C17_EveryLineOnce ==
    sse["c2"].pc = "closed"
        => /\ Len(Sent("c1")) <= Len(log_messages)
           /\ Sent("c1") = SubSeq(log_messages, 1, Len(Sent("c1")))
           /\ (sse["c1"].pc = "test" /\ last_sse_index >= Len(log_messages))
                 => Sent("c1") = log_messages

\* the lines appended to the log since a client connected
Since(c) == SubSeq(log_messages, sse[c].since + 1, Len(log_messages))

\* the lines of a sequence, as a set
Lines(q) == {q[i] : i \in 1..Len(q)}

\* C18: with two clients of /logs connected, a line appended after a client
\* connected and sent to the other client is not lost to it through the shared
\* last_sse_index: once the cursor has caught up with the log and the client's
\* generator is back at its test, the client has been sent that line too.
C18_EachClientGetsLater ==
    \A c \in Clients : \A d \in Clients \ {c} :
        (/\ sse[c].pc = "test"
         /\ sse[d].pc # "closed"
         /\ last_sse_index >= Len(log_messages))
            => Lines(Since(c)) \cap Lines(Sent(d)) \subseteq Lines(Sent(c))

\* C19: whenever the navigation flow of main() ends, at the destination or
\* for want of a path, picam2.stop() has been called before main() returns.
C19_CameraStoppedAtReturn ==
    pc \in {"done", "aborted"} => picam2 = "stopped"

====
